---------------------------- MODULE Spec2Model ----------------------------
(***************************************************************************)
(* A model of the request executor of the go-asana client                  *)
(* (src/asana/asana.go): Client.request, the resource methods that call    *)
(* it, and the transport collaborator (Doer) it hands the request to.      *)
(*                                                                         *)
(* Modelling conventions                                                   *)
(*  - A resource path is the sequence of its "/"-separated segments:       *)
(*    "tasks/1" is <<"tasks", "1">>.  An identifier interpolated by        *)
(*    fmt.Sprintf is itself a sequence of segments.                        *)
(*  - url.Values is a set of <<key, value>> pairs; its Encode is the       *)
(*    sequence of the pairs sorted by key.  Percent-escaping of the        *)
(*    values, which the receiving side inverts, is not represented.        *)
(*  - A *Filter is nil or the address "caller" of heap.                    *)
(*  - The decode target v is a record with two string fields.              *)
(***************************************************************************)
EXTENDS Naturals, Sequences, FiniteSets, TLC

VARIABLES
    client,     \* Client.BaseURL and Client.UserAgent
    pc,         \* "idle" | "inDo" (blocked in c.doer.Do) | "done" (returned)
    frame,      \* the arguments of the running invocation
    heap,       \* Filter objects by address: "caller", "fresh", "copy"
    req,        \* the *http.Request handed to the transport
    result,     \* what c.doer.Do returned
    err,        \* the error the invocation returned
    v,          \* the value the target pointer v points to
    doCount,    \* calls of c.doer.Do made by the running invocation
    decoded,    \* calls of json.Decoder.Decode on the response body
    closed,     \* calls of resp.Body.Close
    procs,      \* concurrent invocations: the locals of each
    shared,     \* concurrent invocations: the Filter object their callers share
    rendered    \* the text the caller got from the Error method of err

vars ==
    <<client, pc, frame, heap, req, result, err, v, doCount, decoded, closed,
      procs, shared, rendered>>

-----------------------------------------------------------------------------
(* Bounds of the model *)

\* longest field-selection list a caller puts in a Filter
MaxOptFields == 1
\* longest "errors" list of a response body
MaxErrors == 2
\* number of invocations that run concurrently on one Client
NumProcs == 2

-----------------------------------------------------------------------------
(* Constants of the program *)

userAgent == "go-asana/0.1"

defaultBaseURL == [scheme |-> "https", host |-> "app.asana.com", dir |-> <<"api", "1.0">>]

StatusUnauthorized == 401

defaultOptFields ==
    (<<"tags">>       :> <<"name", "color", "notes">>) @@
    (<<"users">>      :> <<"name", "email", "photo">>) @@
    (<<"projects">>   :> <<"name", "color", "archived">>) @@
    (<<"workspaces">> :> <<"name", "is_organization">>) @@
    (<<"tasks">>      :> <<"name", "assignee", "assignee_status", "completed", "parent">>)

-----------------------------------------------------------------------------
(* Error values *)

Err(kind, msg, list) == [kind |-> kind, msg |-> msg, list |-> list]

NoErr == Err("nil", "", <<>>)

ErrUnauthorized == Err("ErrUnauthorized", "asana: unauthorized", <<>>)

\* an Errors value returned as an error
ErrorsErr(list) == Err("Errors", "", list)

\* *url.Error of url.Parse
UrlParseError == Err("url.Error", "invalid URL escape", <<>>)

\* *json.UnsupportedTypeError of json.Marshal
MarshalError == Err("json.UnsupportedTypeError", "json: unsupported type", <<>>)

\* the error of http.NewRequest for a method that is no token
MethodError == Err("http", "net/http: invalid method", <<>>)

\* *json.SyntaxError of Decoder.Decode
SyntaxError == Err("json.SyntaxError", "invalid character", <<>>)

\* *json.UnmarshalTypeError of Decoder.Decode
UnmarshalTypeError == Err("json.UnmarshalTypeError", "cannot unmarshal number into string", <<>>)

-----------------------------------------------------------------------------
(* Values the callers and the transport supply *)

ZeroFilter ==
    [Archived |-> FALSE, Assignee |-> "", Project |-> "", Workspace |-> "",
     CompletedSince |-> "", ModifiedSince |-> "",
     OptFields |-> <<>>, OptExpand |-> <<>>]

FieldNames == {"name", "notes"}

SeqsUpTo(S, n) == UNION {[1..k -> S] : k \in 0..n}

\* the Filter with no field set, and one with every other field set
FilterScalars ==
    {ZeroFilter,
     [ZeroFilter EXCEPT !.Archived = TRUE, !.Assignee = "me", !.Project = "7",
                        !.Workspace = "9", !.CompletedSince = "now",
                        !.ModifiedSince = "2014-04-25T11:15:14.000Z",
                        !.OptExpand = <<"assignee", "parent">>]}

Filters ==
    {[f EXCEPT !.OptFields = of] :
        f \in FilterScalars, of \in SeqsUpTo(FieldNames, MaxOptFields)}

\* an opt argument: nil, or a pointer to a caller-owned Filter with this value
OptArgs == {[nil |-> TRUE, val |-> ZeroFilter]} \cup {[nil |-> FALSE, val |-> f] : f \in Filters}

\* identifiers interpolated into a path
Ids == {<<"1">>, <<"">>, <<"%zz">>}

\* paths given to Request and request directly
Paths == {<<"tasks">>, <<"workspaces">>, <<"tasks", "1">>, <<"teams">>, <<"%zz">>}

\* data arguments: nil, a TaskUpdate (a nil pointer field is <<>>), a value
\* json.Marshal does not support
NilData == [type |-> "nil", Notes |-> <<>>, Hearted |-> <<>>]

TaskUpdate(notes, hearted) == [type |-> "TaskUpdate", Notes |-> notes, Hearted |-> hearted]

TaskUpdates ==
    {TaskUpdate(<<"updated notes">>, <<>>), TaskUpdate(<<>>, <<"true">>), TaskUpdate(<<>>, <<>>)}

ChanData == [type |-> "chan", Notes |-> <<>>, Hearted |-> <<>>]

\* form arguments: nil, or url.Values
NilForm == [nil |-> TRUE, vals |-> {}]

Form(vals) == [nil |-> FALSE, vals |-> vals]

FieldMaps == {{}, {<<"name", "Task1">>}, {<<"name", "Task1">>, <<"workspace", "9">>}}

Methods == {"PUT", "", "BAD METHOD"}

\* targets: new(T) and a value the caller filled before the call
ZeroTarget == [gid |-> "", notes |-> ""]

Targets == {ZeroTarget, [gid |-> "5", notes |-> "old notes"]}

-----------------------------------------------------------------------------
(* Library functions the executor calls *)

RECURSIVE Join(_, _)
\* strings.Join
Join(list, sep) ==
    IF Len(list) = 0 THEN ""
    ELSE IF Len(list) = 1 THEN list[1]
    ELSE list[1] \o sep \o Join(Tail(list), sep)

\* all keys of a query or a form, in the order url.Values.Encode sorts them
SortedKeys ==
    <<"archived", "assignee", "completed_since", "modified_since", "name",
      "notes", "opt_expand", "opt_fields", "project", "workspace">>

\* query.Values of a Filter: a field is left out when it is empty
\* (`omitempty`), a list is comma-joined (`comma`)
QueryValues(f) ==
    (IF f.Archived THEN {<<"archived", "true">>} ELSE {}) \cup
    (IF f.Assignee # "" THEN {<<"assignee", f.Assignee>>} ELSE {}) \cup
    (IF f.Project # "" THEN {<<"project", f.Project>>} ELSE {}) \cup
    (IF f.Workspace # "" THEN {<<"workspace", f.Workspace>>} ELSE {}) \cup
    (IF f.CompletedSince # "" THEN {<<"completed_since", f.CompletedSince>>} ELSE {}) \cup
    (IF f.ModifiedSince # "" THEN {<<"modified_since", f.ModifiedSince>>} ELSE {}) \cup
    (IF Len(f.OptFields) # 0 THEN {<<"opt_fields", Join(f.OptFields, ",")>>} ELSE {}) \cup
    (IF Len(f.OptExpand) # 0 THEN {<<"opt_expand", Join(f.OptExpand, ",")>>} ELSE {})

RECURSIVE EncodeFrom(_, _)
EncodeFrom(vals, i) ==
    IF i > Len(SortedKeys) THEN <<>>
    ELSE LET here == {p \in vals : p[1] = SortedKeys[i]}
         IN (IF here = {} THEN <<>> ELSE <<CHOOSE p \in here : TRUE>>)
            \o EncodeFrom(vals, i + 1)

\* url.Values.Encode: the pairs sorted by key
Encode(vals) == EncodeFrom(vals, 1)

RECURSIVE PairsString(_)
\* the "k=v&k=v" text of encoded pairs
PairsString(pairs) ==
    IF Len(pairs) = 0 THEN ""
    ELSE pairs[1][1] \o "=" \o pairs[1][2]
         \o (IF Len(pairs) = 1 THEN "" ELSE "&" \o PairsString(Tail(pairs)))

\* url.Parse fails on a segment with an invalid percent-escape
ParseOK(path) == \A i \in 1..Len(path) : path[i] # "%zz"

\* the relative URL used as it is, without the base address
ResolveReferenceNoBase(base, rel) ==
    [scheme |-> "", host |-> "", path |-> rel.path, query |-> rel.query]

\* (*URL).ResolveReference of a relative path against the base address
ResolveReference(base, rel) ==
    [scheme |-> base.scheme, host |-> base.host,
     path |-> base.dir \o rel.path, query |-> rel.query]

\* json.Marshal of a TaskUpdate: a nil pointer field is omitted
MarshalTaskUpdate(tu) ==
    "{"
    \o (IF Len(tu.Notes) = 1 THEN "\"notes\":\"" \o tu.Notes[1] \o "\"" ELSE "")
    \o (IF Len(tu.Notes) = 1 /\ Len(tu.Hearted) = 1 THEN "," ELSE "")
    \o (IF Len(tu.Hearted) = 1 THEN "\"hearted\":" \o tu.Hearted[1] ELSE "")
    \o "}"

\* json.Marshal(request{Data: data})
MarshalRequest(data) ==
    IF data.type = "chan"
    THEN [err |-> MarshalError, bytes |-> ""]
    ELSE [err |-> NoErr, bytes |-> "{\"data\":" \o MarshalTaskUpdate(data) \o "}"]

\* net/http validMethod
validMethod(method) == method \in {"GET", "PUT", "POST"}

-----------------------------------------------------------------------------
(* Client.request, lines 263-303: from the arguments to the request handed *)
(* to the transport                                                        *)

\* Lookup keyed by the first segment of the path instead of the whole path
LookupPrefix(path) ==
    IF Len(path) > 0 /\ <<path[1]>> \in DOMAIN defaultOptFields
    THEN defaultOptFields[<<path[1]>>] ELSE <<>>

\* defaultOptFields[path]: a missing key yields the nil list
Lookup(path) ==
    IF path \in DOMAIN defaultOptFields THEN defaultOptFields[path] ELSE <<>>

\* ApplyDefaults substituting the defaults only for a nil opt
ApplyDefaultsNilOnly(h, arg, path) ==
    IF arg.nil
    THEN [heap |-> [h EXCEPT !["fresh"] = [ZeroFilter EXCEPT !.OptFields = Lookup(path)]],
          opt |-> "fresh"]
    ELSE [heap |-> h, opt |-> "caller"]

\* ApplyDefaults writing the defaults through the caller's pointer
ApplyDefaultsInPlace(h, arg, path) ==
    LET p1 == IF arg.nil THEN "fresh" ELSE "caller"
        h1 == IF arg.nil THEN [h EXCEPT !["fresh"] = ZeroFilter] ELSE h
    IN  IF Len(h1[p1].OptFields) = 0
        THEN [heap |-> [h1 EXCEPT ![p1].OptFields = Lookup(path)], opt |-> p1]
        ELSE [heap |-> h1, opt |-> p1]

\* ApplyDefaults substituting the defaults whatever the caller's list
ApplyDefaultsAlways(h, arg, path) ==
    LET p1 == IF arg.nil THEN "fresh" ELSE "caller"
        h1 == IF arg.nil THEN [h EXCEPT !["fresh"] = ZeroFilter] ELSE h
    IN  [heap |-> [h1 EXCEPT !["copy"] = [h1[p1] EXCEPT !.OptFields = Lookup(path)]],
         opt |-> "copy"]

\* lines 263-271: opt after the nil check and the default substitution, with
\* the heap the writes leave
ApplyDefaults(h, arg, path) ==
    LET p1 == IF arg.nil THEN "fresh" ELSE "caller"
        h1 == IF arg.nil THEN [h EXCEPT !["fresh"] = ZeroFilter] ELSE h
    IN  IF Len(h1[p1].OptFields) = 0
        THEN [heap |-> [h1 EXCEPT !["copy"] = [h1[p1] EXCEPT !.OptFields = Lookup(path)]],
              opt |-> "copy"]
        ELSE [heap |-> h1, opt |-> p1]

\* addOptions
addOptions(s, opt) ==
    IF ~ParseOK(s)
    THEN [err |-> UrlParseError, url |-> [path |-> s, query |-> <<>>]]
    ELSE [err |-> NoErr, url |-> [path |-> s, query |-> Encode(QueryValues(opt))]]

NoReq ==
    [Method |-> "", URL |-> [scheme |-> "", host |-> "", path |-> <<>>, query |-> <<>>],
     ContentType |-> "", UserAgent |-> "", body |-> [kind |-> "none", bytes |-> ""]]

\* RequestBody that looks at the form first
RequestBodyFormFirst(data, form, marshalled) ==
    IF ~form.nil THEN [kind |-> "form", bytes |-> PairsString(Encode(form.vals))]
    ELSE IF data.type # "nil" THEN [kind |-> "json", bytes |-> marshalled]
    ELSE [kind |-> "none", bytes |-> ""]

\* lines 281-290: the body reader
RequestBody(data, form, marshalled) ==
    IF data.type # "nil" THEN [kind |-> "json", bytes |-> marshalled]
    ELSE IF ~form.nil THEN [kind |-> "form", bytes |-> PairsString(Encode(form.vals))]
    ELSE [kind |-> "none", bytes |-> ""]

\* ContentType with two separate ifs: the form's header overwrites the JSON one
ContentTypeFormWins(data, form) ==
    IF ~form.nil THEN "application/x-www-form-urlencoded"
    ELSE IF data.type # "nil" THEN "application/json"
    ELSE ""

\* lines 296-300: the Content-Type header ("" when not set)
ContentType(data, form) ==
    IF data.type # "nil" THEN "application/json"
    ELSE IF ~form.nil THEN "application/x-www-form-urlencoded"
    ELSE ""

\* BuildRequest marshalling the data before it parses the path
BuildRequestMarshalFirst(c, method, path, data, form, opt) ==
    LET ao == addOptions(path, opt)
        m  == IF data.type # "nil" THEN MarshalRequest(data) ELSE [err |-> NoErr, bytes |-> ""]
    IN  IF m.err # NoErr THEN [err |-> m.err, req |-> NoReq]
        ELSE IF ao.err # NoErr THEN [err |-> ao.err, req |-> NoReq]
        ELSE IF method # "" /\ ~validMethod(method) THEN [err |-> MethodError, req |-> NoReq]
        ELSE [err |-> NoErr,
              req |-> [Method |-> IF method = "" THEN "GET" ELSE method,
                       URL |-> ResolveReference(c.BaseURL, ao.url),
                       ContentType |-> ContentType(data, form),
                       UserAgent |-> c.UserAgent,
                       body |-> RequestBody(data, form, m.bytes)]]

\* lines 272-302: the request built from the arguments and the effective
\* filter, or the error that ends the invocation before the transport
\* (url.Parse of line 276 reads back the text addOptions printed from a URL it
\* had parsed, and accepts it; query.Values accepts every *Filter)
BuildRequest(c, method, path, data, form, opt) ==
    LET ao == addOptions(path, opt)
        m  == IF data.type # "nil" THEN MarshalRequest(data) ELSE [err |-> NoErr, bytes |-> ""]
    IN  IF ao.err # NoErr THEN [err |-> ao.err, req |-> NoReq]
        ELSE IF m.err # NoErr THEN [err |-> m.err, req |-> NoReq]
        ELSE IF method # "" /\ ~validMethod(method) THEN [err |-> MethodError, req |-> NoReq]
        ELSE [err |-> NoErr,
              req |-> [Method |-> IF method = "" THEN "GET" ELSE method,
                       URL |-> ResolveReference(c.BaseURL, ao.url),
                       ContentType |-> ContentType(data, form),
                       UserAgent |-> c.UserAgent,
                       body |-> RequestBody(data, form, m.bytes)]]

-----------------------------------------------------------------------------
(* What the transport collaborator returns *)

Absent == [t |-> "absent", s |-> ""]

Str(s) == [t |-> "string", s |-> s]

\* a JSON number where the target field is a string
Num == [t |-> "number", s |-> ""]

\* the value under "data": absent, or an object with these fields
NoData == [present |-> FALSE, gid |-> Absent, notes |-> Absent]

Payloads ==
    {NoData,
     [present |-> TRUE, gid |-> Str("1"), notes |-> Str("updated notes")],
     [present |-> TRUE, gid |-> Str("1"), notes |-> Absent],
     [present |-> TRUE, gid |-> Num, notes |-> Str("updated notes")]}

\* the "errors" list of n elements
APIErrors(n) ==
    [i \in 1..n |-> IF i % 2 = 1 THEN [Phrase |-> "P", Message |-> "M"]
                                 ELSE [Phrase |-> "Q", Message |-> "N"]]

\* a body that is no JSON value
InvalidBody == [syntax |-> "invalid", data |-> NoData, errors |-> <<>>]

Bodies ==
    {InvalidBody} \cup
    {[syntax |-> "ok", data |-> p, errors |-> e] :
        p \in Payloads, e \in {APIErrors(n) : n \in 0..MaxErrors}}

Statuses == {200, StatusUnauthorized, 404, 500}

NoResp == [StatusCode |-> 0, Body |-> InvalidBody]

NoResult == [returned |-> FALSE, err |-> NoErr, resp |-> NoResp]

\* errors of the transport; a Doer may also return the package's sentinel
DoerErrors ==
    {Err("transport", "dial tcp: connection refused", <<>>),
     Err("transport", "context canceled", <<>>),
     ErrUnauthorized}

DoResults ==
    {[returned |-> TRUE, err |-> e, resp |-> NoResp] : e \in DoerErrors} \cup
    {[returned |-> TRUE, err |-> NoErr, resp |-> [StatusCode |-> s, Body |-> b]] :
        s \in Statuses, b \in Bodies}

-----------------------------------------------------------------------------
(* Client.request, lines 304-318: from the transport's answer to the return *)

\* a string field of the target after decoding a JSON member into it
DecodeField(old, member) == IF member.t = "string" THEN member.s ELSE old

\* json.NewDecoder(resp.Body).Decode(res) with res = &Response{Data: v}: a
\* body that is no JSON value stores nothing; a member of the wrong type is
\* skipped and reported after the rest is stored
Decode(body, target) ==
    IF body.syntax # "ok"
    THEN [err |-> SyntaxError, v |-> target, Errors |-> <<>>]
    ELSE [err |-> IF body.data.present /\ "number" \in {body.data.gid.t, body.data.notes.t}
                  THEN UnmarshalTypeError ELSE NoErr,
          v |-> IF body.data.present
                THEN [gid |-> DecodeField(target.gid, body.data.gid),
                      notes |-> DecodeField(target.notes, body.data.notes)]
                ELSE target,
          Errors |-> body.errors]

\* respond returning only the first API error (as Request once did)
respondFirstError(r, target) ==
    IF r.err # NoErr
    THEN [err |-> r.err, v |-> target, decoded |-> 0, closed |-> 0]
    ELSE IF r.resp.StatusCode = StatusUnauthorized
    THEN [err |-> ErrUnauthorized, v |-> target, decoded |-> 0, closed |-> 1]
    ELSE LET res == Decode(r.resp.Body, target)
         IN  [err |-> IF Len(res.Errors) > 0 THEN ErrorsErr(<<res.Errors[1]>>) ELSE res.err,
              v |-> res.v, decoded |-> 1, closed |-> 1]

\* respond returning the decoder's error before it looks at the error list
respondErrFirst(r, target) ==
    IF r.err # NoErr
    THEN [err |-> r.err, v |-> target, decoded |-> 0, closed |-> 0]
    ELSE IF r.resp.StatusCode = StatusUnauthorized
    THEN [err |-> ErrUnauthorized, v |-> target, decoded |-> 0, closed |-> 1]
    ELSE LET res == Decode(r.resp.Body, target)
         IN  [err |-> IF res.err # NoErr THEN res.err
                      ELSE IF Len(res.Errors) > 0 THEN ErrorsErr(res.Errors) ELSE NoErr,
              v |-> res.v, decoded |-> 1, closed |-> 1]

\* respond decoding the body before it checks the status
respondDecodeFirst(r, target) ==
    IF r.err # NoErr
    THEN [err |-> r.err, v |-> target, decoded |-> 0, closed |-> 0]
    ELSE LET res == Decode(r.resp.Body, target)
         IN  [err |-> IF r.resp.StatusCode = StatusUnauthorized THEN ErrUnauthorized
                      ELSE IF Len(res.Errors) > 0 THEN ErrorsErr(res.Errors) ELSE res.err,
              v |-> res.v, decoded |-> 1, closed |-> 1]

\* respond wrapping the transport's error
respondWrap(r, target) ==
    IF r.err # NoErr
    THEN [err |-> Err("wrapError", "asana: " \o r.err.msg, <<>>),
          v |-> target, decoded |-> 0, closed |-> 0]
    ELSE IF r.resp.StatusCode = StatusUnauthorized
    THEN [err |-> ErrUnauthorized, v |-> target, decoded |-> 0, closed |-> 1]
    ELSE LET res == Decode(r.resp.Body, target)
         IN  [err |-> IF Len(res.Errors) > 0 THEN ErrorsErr(res.Errors) ELSE res.err,
              v |-> res.v, decoded |-> 1, closed |-> 1]

\* respond returning res.Errors whenever the decoder reported nothing
respondErrorsAlways(r, target) ==
    IF r.err # NoErr
    THEN [err |-> r.err, v |-> target, decoded |-> 0, closed |-> 0]
    ELSE IF r.resp.StatusCode = StatusUnauthorized
    THEN [err |-> ErrUnauthorized, v |-> target, decoded |-> 0, closed |-> 1]
    ELSE LET res == Decode(r.resp.Body, target)
         IN  [err |-> IF res.err = NoErr THEN ErrorsErr(res.Errors) ELSE res.err,
              v |-> res.v, decoded |-> 1, closed |-> 1]

\* respond registering the deferred Close after the status check
respondCloseLate(r, target) ==
    IF r.err # NoErr
    THEN [err |-> r.err, v |-> target, decoded |-> 0, closed |-> 0]
    ELSE IF r.resp.StatusCode = StatusUnauthorized
    THEN [err |-> ErrUnauthorized, v |-> target, decoded |-> 0, closed |-> 0]
    ELSE LET res == Decode(r.resp.Body, target)
         IN  [err |-> IF Len(res.Errors) > 0 THEN ErrorsErr(res.Errors) ELSE res.err,
              v |-> res.v, decoded |-> 1, closed |-> 1]

\* respond turning every status from 400 on into an error
respondStatusCheck(r, target) ==
    IF r.err # NoErr
    THEN [err |-> r.err, v |-> target, decoded |-> 0, closed |-> 0]
    ELSE IF r.resp.StatusCode = StatusUnauthorized
    THEN [err |-> ErrUnauthorized, v |-> target, decoded |-> 0, closed |-> 1]
    ELSE IF r.resp.StatusCode >= 400
    THEN [err |-> Err("status", "asana: unexpected status", <<>>),
          v |-> target, decoded |-> 0, closed |-> 1]
    ELSE LET res == Decode(r.resp.Body, target)
         IN  [err |-> IF Len(res.Errors) > 0 THEN ErrorsErr(res.Errors) ELSE res.err,
              v |-> res.v, decoded |-> 1, closed |-> 1]

\* lines 304-318
respond(r, target) ==
    IF r.err # NoErr
    THEN [err |-> r.err, v |-> target, decoded |-> 0, closed |-> 0]
    ELSE IF r.resp.StatusCode = StatusUnauthorized
    THEN [err |-> ErrUnauthorized, v |-> target, decoded |-> 0, closed |-> 1]
    ELSE LET res == Decode(r.resp.Body, target)
         IN  [err |-> IF Len(res.Errors) > 0 THEN ErrorsErr(res.Errors) ELSE res.err,
              v |-> res.v, decoded |-> 1, closed |-> 1]

-----------------------------------------------------------------------------
(* The Error methods *)

\* Error.Error with the phrase before the message
ErrorErrorPhraseFirst(e) == e.Phrase \o " - " \o e.Message

\* Error.Error
ErrorError(e) == e.Message \o " - " \o e.Phrase

\* Errors.Error
ErrorsError(e) == Join([i \in 1..Len(e) |-> ErrorError(e[i])], ", ")

\* nothing was rendered
NotRendered == [done |-> FALSE, text |-> "", first |-> ""]

-----------------------------------------------------------------------------
(* The state machine *)

NoFrame ==
    [op |-> "none", method |-> "", path |-> <<>>, data |-> NilData, form |-> NilForm,
     opt |-> [nil |-> TRUE, val |-> ZeroFilter], v0 |-> ZeroTarget]

NoHeap == [caller |-> ZeroFilter, fresh |-> ZeroFilter, copy |-> ZeroFilter]

\* a test server's address, as asana_test.go's setup sets it
testBaseURL == [scheme |-> "http", host |-> "127.0.0.1", dir |-> <<>>]

\* the invocations that run concurrently
Procs == 1..NumProcs

\* the locals of a concurrent invocation that has not started
NoProc ==
    [pc |-> "idle", path |-> <<>>, nil |-> TRUE, fresh |-> ZeroFilter,
     copy |-> ZeroFilter, opt |-> "fresh", req |-> NoReq, err |-> NoErr]

\* NewClient
NewClient == [BaseURL |-> defaultBaseURL, UserAgent |-> userAgent]

Init ==
    /\ client = NewClient
    /\ pc = "idle"
    /\ frame = NoFrame
    /\ heap = NoHeap
    /\ req = NoReq
    /\ result = NoResult
    /\ err = NoErr
    /\ v = ZeroTarget
    /\ doCount = 0
    /\ decoded = 0
    /\ closed = 0
    /\ procs = [p \in Procs |-> NoProc]
    /\ shared = [filter |-> ZeroFilter, filter0 |-> ZeroFilter, client0 |-> NewClient]
    /\ rendered = NotRendered

\* client.BaseURL = url
SetBaseURL ==
    /\ pc = "idle"
    /\ \E u \in {defaultBaseURL, testBaseURL} : client' = [client EXCEPT !.BaseURL = u]
    /\ UNCHANGED <<pc, frame, heap, req, result, err, v, doCount, decoded, closed>>
    /\ UNCHANGED <<procs, shared, rendered>>

\* Client.request up to the call of c.doer.Do (or to the return of a build
\* error); op names the method that was called
request(op, method, path, data, form, opt, target) ==
    /\ pc = "idle"
    /\ LET ad == ApplyDefaults([NoHeap EXCEPT !["caller"] = opt.val], opt, path)
           b  == BuildRequest(client, method, path, data, form, ad.heap[ad.opt])
       IN  /\ frame' = [op |-> op, method |-> method, path |-> path, data |-> data,
                        form |-> form, opt |-> opt, v0 |-> target]
           /\ heap' = ad.heap
           /\ v' = target
           /\ IF b.err # NoErr
              THEN /\ pc' = "done"
                   /\ err' = b.err
                   /\ req' = NoReq
                   /\ doCount' = doCount
              ELSE /\ pc' = "inDo"
                   /\ err' = NoErr
                   /\ req' = b.req
                   /\ doCount' = doCount + 1
    /\ UNCHANGED <<client, result, decoded, closed, procs, shared, rendered>>

\* Client.Request
Request(op, path, opt, target) == request(op, "GET", path, NilData, NilForm, opt, target)

\* Complete calling c.doer.Do again after a transport error
CompleteRetry ==
    /\ pc = "inDo"
    /\ \E r \in DoResults :
          IF r.err # NoErr /\ doCount < 2
          THEN /\ doCount' = doCount + 1
               /\ UNCHANGED <<pc, result, err, v, decoded, closed>>
          ELSE LET out == respond(r, v)
               IN  /\ result' = r
                   /\ err' = out.err
                   /\ v' = out.v
                   /\ decoded' = decoded + out.decoded
                   /\ closed' = closed + out.closed
                   /\ pc' = "done"
                   /\ UNCHANGED doCount
    /\ UNCHANGED <<client, frame, heap, req, procs, shared, rendered>>

\* c.doer.Do returns, and the invocation runs to its return
Complete ==
    /\ pc = "inDo"
    /\ \E r \in DoResults :
          LET out == respond(r, v)
          IN  /\ result' = r
              /\ err' = out.err
              /\ v' = out.v
              /\ decoded' = decoded + out.decoded
              /\ closed' = closed + out.closed
    /\ pc' = "done"
    /\ UNCHANGED <<client, frame, heap, req, doCount, procs, shared, rendered>>

\* the caller has taken the result; the client is ready for the next call
Return ==
    /\ pc = "done"
    /\ pc' = "idle"
    /\ frame' = NoFrame
    /\ heap' = NoHeap
    /\ req' = NoReq
    /\ result' = NoResult
    /\ err' = NoErr
    /\ v' = ZeroTarget
    /\ doCount' = 0
    /\ decoded' = 0
    /\ closed' = 0
    /\ rendered' = NotRendered
    /\ UNCHANGED <<client, procs, shared>>

\* the caller of an invocation that returned an Errors calls its Error
\* method, and the Error method of its first element
RenderError ==
    /\ pc = "done"
    /\ err.kind = "Errors"
    /\ Len(err.list) > 0
    /\ ~rendered.done
    /\ rendered' = [done |-> TRUE, text |-> ErrorsError(err.list),
                    first |-> ErrorError(err.list[1])]
    /\ UNCHANGED <<client, pc, frame, heap, req, result, err, v, doCount, decoded,
                   closed, procs, shared>>

\* a direct call of the executor
CallRequestDirect ==
    \E m \in Methods, p \in {<<"tasks">>, <<"%zz">>},
       d \in {NilData, TaskUpdate(<<"updated notes">>, <<"false">>), ChanData},
       f \in {NilForm, Form({<<"notes", "n">>, <<"name", "Task1">>})},
       o \in OptArgs :
        request("request", m, p, d, f, o, ZeroTarget)

CallRequest ==
    \E p \in Paths, o \in OptArgs, t \in Targets : Request("Request", p, o, t)

ListWorkspaces ==
    Request("ListWorkspaces", <<"workspaces">>, [nil |-> TRUE, val |-> ZeroFilter], ZeroTarget)

ListUsers == \E o \in OptArgs : Request("ListUsers", <<"users">>, o, ZeroTarget)

ListProjects == \E o \in OptArgs : Request("ListProjects", <<"projects">>, o, ZeroTarget)

ListTasks == \E o \in OptArgs : Request("ListTasks", <<"tasks">>, o, ZeroTarget)

GetTask ==
    \E id \in Ids, o \in OptArgs : Request("GetTask", <<"tasks">> \o id, o, ZeroTarget)

\* UpdateTask that does not pass the update on
UpdateTaskNoData ==
    \E id \in Ids, tu \in TaskUpdates, o \in OptArgs :
        request("UpdateTask", "PUT", <<"tasks">> \o id, NilData, NilForm, o, ZeroTarget)

UpdateTask ==
    \E id \in Ids, tu \in TaskUpdates, o \in OptArgs :
        request("UpdateTask", "PUT", <<"tasks">> \o id, tu, NilForm, o, ZeroTarget)

\* toURLValues always returns a map that is not nil
toURLValues(m) == Form(m)

CreateTask ==
    \E fields \in FieldMaps, o \in OptArgs :
        request("CreateTask", "POST", <<"tasks">>, NilData, toURLValues(fields), o, ZeroTarget)

ListProjectTasks ==
    \E id \in Ids, o \in OptArgs :
        Request("ListProjectTasks", <<"projects">> \o id \o <<"tasks">>, o, ZeroTarget)

ListTaskStories ==
    \E id \in Ids, o \in OptArgs :
        Request("ListTaskStories", <<"tasks">> \o id \o <<"stories">>, o, ZeroTarget)

ListTags == \E o \in OptArgs : Request("ListTags", <<"tags">>, o, ZeroTarget)

GetAuthenticatedUser ==
    \E o \in OptArgs : Request("GetAuthenticatedUser", <<"users", "me">>, o, ZeroTarget)

GetUserByID ==
    \E id \in Ids, o \in OptArgs : Request("GetUserByID", <<"users">> \o id, o, ZeroTarget)

Next ==
    \/ SetBaseURL
    \/ CallRequestDirect
    \/ CallRequest
    \/ ListWorkspaces
    \/ ListUsers
    \/ ListProjects
    \/ ListTasks
    \/ GetTask
    \/ UpdateTask
    \/ CreateTask
    \/ ListProjectTasks
    \/ ListTaskStories
    \/ ListTags
    \/ GetAuthenticatedUser
    \/ GetUserByID
    \/ Complete
    \/ RenderError
    \/ Return

Spec == Init /\ [][Next]_vars

-----------------------------------------------------------------------------
(* Concurrent invocations on one Client.  Each runs Client.request in three *)
(* steps: lines 263-271 (reads of *opt and of the default table, writes to  *)
(* its own copy), lines 272-303 (reads of its filter and of the Client),    *)
(* and lines 304-318 once the transport answered.  Callers pass nil or a    *)
(* pointer to the one Filter they share.                                    *)

\* the paths the concurrent callers ask for
ConcPaths == {<<"tasks">>, <<"users">>, <<"tasks", "1">>, <<"%zz">>}

\* what the transport answers a concurrent invocation
ConcResults ==
    {[returned |-> TRUE, err |-> Err("transport", "context canceled", <<>>), resp |-> NoResp],
     [returned |-> TRUE, err |-> NoErr,
      resp |-> [StatusCode |-> 200,
                Body |-> [syntax |-> "ok", data |-> NoData, errors |-> <<>>]]]}

\* the sequential variables stay as NewClient leaves them but for BaseURL,
\* which the test setup may have set before the callers start
ConcInit ==
    /\ \E u \in {defaultBaseURL, testBaseURL} :
          /\ client = [NewClient EXCEPT !.BaseURL = u]
          /\ \E f \in Filters :
                shared = [filter |-> f, filter0 |-> f,
                          client0 |-> [NewClient EXCEPT !.BaseURL = u]]
    /\ pc = "idle"
    /\ frame = NoFrame
    /\ heap = NoHeap
    /\ req = NoReq
    /\ result = NoResult
    /\ err = NoErr
    /\ v = ZeroTarget
    /\ doCount = 0
    /\ decoded = 0
    /\ closed = 0
    /\ procs = [p \in Procs |-> NoProc]
    /\ rendered = NotRendered

\* lines 263-271 of invocation p, called with this path and a nil or the
\* shared opt
cDefaults(p) ==
    /\ procs[p].pc = "idle"
    /\ \E path \in ConcPaths, n \in BOOLEAN :
          LET ad == ApplyDefaults(
                        [caller |-> shared.filter, fresh |-> procs[p].fresh,
                         copy |-> procs[p].copy],
                        [nil |-> n, val |-> shared.filter], path)
          IN  /\ procs' = [procs EXCEPT ![p] =
                              [@ EXCEPT !.pc = "defaulted", !.path = path, !.nil = n,
                                        !.fresh = ad.heap["fresh"],
                                        !.copy = ad.heap["copy"], !.opt = ad.opt]]
              /\ shared' = [shared EXCEPT !.filter = ad.heap["caller"]]
    /\ UNCHANGED <<client, pc, frame, heap, req, result, err, v, doCount, decoded, closed, rendered>>

\* the Filter the opt of invocation p points to
cFilter(p) ==
    IF procs[p].opt = "caller" THEN shared.filter
    ELSE IF procs[p].opt = "fresh" THEN procs[p].fresh
    ELSE procs[p].copy

\* lines 272-303 of invocation p (a GET of Client.Request)
cBuild(p) ==
    /\ procs[p].pc = "defaulted"
    /\ LET b == BuildRequest(client, "GET", procs[p].path, NilData, NilForm, cFilter(p))
       IN  procs' = [procs EXCEPT ![p] =
                        IF b.err # NoErr
                        THEN [@ EXCEPT !.pc = "done", !.err = b.err]
                        ELSE [@ EXCEPT !.pc = "inDo", !.req = b.req]]
    /\ UNCHANGED <<client, pc, frame, heap, req, result, err, v, doCount, decoded, closed, rendered>>
    /\ UNCHANGED shared

\* lines 304-318 of invocation p
cComplete(p) ==
    /\ procs[p].pc = "inDo"
    /\ \E r \in ConcResults :
          procs' = [procs EXCEPT ![p] =
                       [@ EXCEPT !.pc = "done", !.err = respond(r, ZeroTarget).err]]
    /\ UNCHANGED <<client, pc, frame, heap, req, result, err, v, doCount, decoded, closed, rendered>>
    /\ UNCHANGED shared

ConcNext == \E p \in Procs : cDefaults(p) \/ cBuild(p) \/ cComplete(p)

ConcSpec == ConcInit /\ [][ConcNext]_vars

-----------------------------------------------------------------------------
(* Vocabulary of the properties *)

\* a request was handed to the transport by the running invocation
Handed == pc \in {"inDo", "done"} /\ req # NoReq

\* the transport answered the running invocation with a response
Answered == pc = "done" /\ result.returned /\ result.err = NoErr

\* the query of a request has the parameter k
HasParam(q, k) == \E i \in 1..Len(q) : q[i][1] = k

\* the value of parameter k
Param(q, k) == q[CHOOSE i \in 1..Len(q) : q[i][1] = k][2]

\* the caller's field-selection list is empty (opt is nil, or OptFields is)
EmptyOptFields == frame.opt.nil \/ Len(frame.opt.val.OptFields) = 0

\* the default lists as they travel in the query
ExpectedDefault ==
    (<<"tags">>       :> "name,color,notes") @@
    (<<"users">>      :> "name,email,photo") @@
    (<<"projects">>   :> "name,color,archived") @@
    (<<"workspaces">> :> "name,is_organization") @@
    (<<"tasks">>      :> "name,assignee,assignee_status,completed,parent")

-----------------------------------------------------------------------------
(* C1 *)

\* C1: whenever a request is handed to the transport for a call whose filter
\* is nil or has an empty OptFields, its opt_fields parameter is the default
\* list of exactly that path, comma-joined in table order, and the parameter
\* is absent when the path is no key of the table.
C1_DefaultOptFields ==
    (Handed /\ EmptyOptFields) =>
        IF frame.path \in DOMAIN ExpectedDefault
        THEN /\ HasParam(req.URL.query, "opt_fields")
             /\ Param(req.URL.query, "opt_fields") = ExpectedDefault[frame.path]
        ELSE ~HasParam(req.URL.query, "opt_fields")

\* a caller's Filter that is not nil and has no OptFields gets the defaults of "tasks"
C1_Witness ==
    /\ pc = "inDo"
    /\ ~frame.opt.nil
    /\ frame.opt.val.Archived
    /\ Len(frame.opt.val.OptFields) = 0
    /\ frame.path = <<"tasks">>
    /\ HasParam(req.URL.query, "opt_fields")
    /\ Param(req.URL.query, "opt_fields") = "name,assignee,assignee_status,completed,parent"

-----------------------------------------------------------------------------
(* C2 *)

\* C2: from the call to the return, whatever the outcome, the caller's Filter
\* object holds the value it had when the call was made; the defaults are
\* written to a copy.
C2_CallerFilterUnmodified ==
    (pc # "idle" /\ ~frame.opt.nil) => heap["caller"] = frame.opt.val

\* the call returned, the defaults were substituted, and they are in the copy
C2_Witness ==
    /\ pc = "done"
    /\ ~frame.opt.nil
    /\ Len(frame.opt.val.OptFields) = 0
    /\ frame.path \in DOMAIN defaultOptFields
    /\ heap["copy"].OptFields = defaultOptFields[frame.path]
    /\ Len(heap["caller"].OptFields) = 0
    /\ err.kind = "Errors"

-----------------------------------------------------------------------------
(* C3 *)

\* C3: whenever a request is handed to the transport for a call whose filter
\* has a non-empty OptFields, its opt_fields parameter is the caller's list,
\* comma-joined, also when the path is a key of the default table.
C3_NoSubstitution ==
    (Handed /\ ~EmptyOptFields) =>
        /\ HasParam(req.URL.query, "opt_fields")
        /\ Param(req.URL.query, "opt_fields") = Join(frame.opt.val.OptFields, ",")

\* a caller's list travels on a path that has defaults
C3_Witness ==
    /\ pc = "inDo"
    /\ frame.path = <<"tasks">>
    /\ ~frame.opt.nil
    /\ frame.opt.val.OptFields = <<"notes">>
    /\ Param(req.URL.query, "opt_fields") = "notes"

-----------------------------------------------------------------------------
(* C4 *)

\* C4: when the response has status 401 the call returns ErrUnauthorized, the
\* body is not decoded and the target keeps the value it had at the call,
\* whatever the body holds.
C4_Unauthorized ==
    (Answered /\ result.resp.StatusCode = StatusUnauthorized) =>
        /\ err = ErrUnauthorized
        /\ decoded = 0
        /\ v = frame.v0

\* a 401 whose body has data and a non-empty "errors" list
C4_Witness ==
    /\ Answered
    /\ result.resp.StatusCode = StatusUnauthorized
    /\ result.resp.Body.syntax = "ok"
    /\ result.resp.Body.data.present
    /\ Len(result.resp.Body.errors) > 0
    /\ err = ErrUnauthorized

-----------------------------------------------------------------------------
(* C5 *)

\* C5: for a response that is not a 401 and whose envelope has a non-empty
\* "errors" list, the call returns that whole list, in response order, as its
\* error, whether or not "data" is present and whether or not decoding also
\* reported an error.
C5_ErrorsReturned ==
    (/\ Answered
     /\ result.resp.StatusCode # StatusUnauthorized
     /\ result.resp.Body.syntax = "ok"
     /\ Len(result.resp.Body.errors) > 0) =>
        /\ err.kind = "Errors"
        /\ err.list = result.resp.Body.errors

\* two errors, data present, and a member the decoder reported
C5_Witness ==
    /\ Answered
    /\ result.resp.StatusCode = 200
    /\ Len(result.resp.Body.errors) = 2
    /\ result.resp.Body.data.present
    /\ result.resp.Body.data.gid.t = "number"
    /\ err = ErrorsErr(<<[Phrase |-> "P", Message |-> "M"], [Phrase |-> "Q", Message |-> "N"]>>)
    /\ v.notes = "updated notes"

-----------------------------------------------------------------------------
(* C6 *)

\* the value under "data" is present and every member fits the target
PayloadValid(body) ==
    /\ body.syntax = "ok"
    /\ body.data.present
    /\ "number" \notin {body.data.gid.t, body.data.notes.t}

\* the envelope's "errors" list is non-empty
ErrorsNonEmpty(body) == body.syntax = "ok" /\ Len(body.errors) > 0

\* the target holds every member of the payload
PayloadStored(body) ==
    /\ body.data.gid.t = "string" => v.gid = body.data.gid.s
    /\ body.data.notes.t = "string" => v.notes = body.data.notes.s

\* C6 as stated: for every response the executor decodes, exactly one of
\* payload-is-valid and errors-nonempty holds; in the first case the call
\* returns the payload with a nil error, in the second the list as the error.
C6_ExactlyOne ==
    (Answered /\ decoded = 1) =>
        LET body == result.resp.Body
        IN  /\ PayloadValid(body) # ErrorsNonEmpty(body)
            /\ PayloadValid(body) => (err = NoErr /\ PayloadStored(body))
            /\ ErrorsNonEmpty(body) => err = ErrorsErr(body.errors)

\* C6 amended: for every response the executor decodes, the returned error is
\* the envelope's error list exactly when that list is non-empty, and is nil
\* exactly when the list is empty and the decoder reported nothing; a valid
\* payload is stored in the target in both cases.  A body may hold both a
\* valid payload and errors, or neither.
C6_Amended ==
    (Answered /\ decoded = 1) =>
        LET body == result.resp.Body
        IN  /\ err.kind = "Errors" <=> ErrorsNonEmpty(body)
            /\ err.kind = "Errors" => err.list = body.errors
            /\ err = NoErr <=>
                  /\ body.syntax = "ok"
                  /\ Len(body.errors) = 0
                  /\ ~(body.data.present /\ "number" \in {body.data.gid.t, body.data.notes.t})
            /\ PayloadValid(body) => PayloadStored(body)

\* a decoded body with a valid payload and a non-empty error list: the list is
\* returned and the payload is in the target
C6_Witness ==
    /\ Answered
    /\ decoded = 1
    /\ PayloadValid(result.resp.Body)
    /\ ErrorsNonEmpty(result.resp.Body)
    /\ err.kind = "Errors"
    /\ v.gid = "1"

-----------------------------------------------------------------------------
(* C7 *)

\* the arguments of the running invocation let the request be built
BuildSucceeds ==
    /\ ParseOK(frame.path)
    /\ frame.data.type # "chan"
    /\ frame.method \in {"", "GET", "PUT", "POST"}

\* C7: when both data and form are supplied, the request handed to the
\* transport has Content-Type application/json and the JSON envelope of data
\* as its body, without the form; supplying both does not make the call fail.
C7_JSONOverForm ==
    (pc # "idle" /\ frame.data.type # "nil" /\ ~frame.form.nil) =>
        /\ BuildSucceeds => Handed
        /\ Handed =>
              /\ req.ContentType = "application/json"
              /\ req.body.kind = "json"
              /\ req.body.bytes = "{\"data\":{\"notes\":\"updated notes\",\"hearted\":false}}"

\* both supplied, and the request is with the transport
C7_Witness ==
    /\ pc = "inDo"
    /\ frame.data.type = "TaskUpdate"
    /\ ~frame.form.nil
    /\ frame.form.vals # {}
    /\ req.ContentType = "application/json"
    /\ req.body.kind = "json"

-----------------------------------------------------------------------------
(* C8 *)

\* the resource methods whose path is parameterized
ParameterizedOps ==
    {"GetTask", "UpdateTask", "ListProjectTasks", "ListTaskStories",
     "GetUserByID", "GetAuthenticatedUser"}

\* C8: the request of a method with a parameterized path carries no
\* opt_fields parameter when the caller's field-selection list is empty: the
\* default table is looked up by the whole path, not by a prefix of it.
C8_ExactKey ==
    (Handed /\ frame.op \in ParameterizedOps /\ EmptyOptFields) =>
        ~HasParam(req.URL.query, "opt_fields")

\* GetTask of task 1 with no filter: the path starts with a key of the table
C8_Witness ==
    /\ pc = "inDo"
    /\ frame.op = "GetTask"
    /\ frame.path = <<"tasks", "1">>
    /\ frame.opt.nil
    /\ <<frame.path[1]>> \in DOMAIN defaultOptFields
    /\ req.URL.query = <<>>

-----------------------------------------------------------------------------
(* C9 *)

\* C9: when the transport returns an error, the call returns that same error
\* value, nothing is decoded and the target keeps the value it had.
C9_TransportErrorVerbatim ==
    (pc = "done" /\ result.returned /\ result.err # NoErr) =>
        /\ err = result.err
        /\ decoded = 0
        /\ v = frame.v0

\* the transport failed and the call returned its error
C9_Witness ==
    /\ pc = "done"
    /\ result.returned
    /\ result.err = Err("transport", "dial tcp: connection refused", <<>>)
    /\ err = result.err
    /\ frame.v0 # ZeroTarget

-----------------------------------------------------------------------------
(* C10 *)

\* C10: an invocation calls the transport's Do at most once: once when the
\* request could be built, never when it could not, and not again after Do
\* returned, whatever it returned.
C10_OneRoundTrip ==
    /\ doCount <= 1
    /\ pc = "idle" => doCount = 0
    /\ pc = "inDo" => doCount = 1
    /\ pc = "done" => doCount = (IF BuildSucceeds THEN 1 ELSE 0)
    /\ pc = "done" => (result.returned <=> doCount = 1)

\* the transport failed, the call returned, and Do was called once
C10_Witness ==
    /\ pc = "done"
    /\ result.returned
    /\ result.err.kind = "transport"
    /\ doCount = 1

-----------------------------------------------------------------------------
(* C11 *)

\* the request invocation p builds when it runs alone on the Client, with the
\* Filter as its caller made it
AloneRequest(p) ==
    LET ad == ApplyDefaults([NoHeap EXCEPT !["caller"] = shared.filter0],
                            [nil |-> procs[p].nil, val |-> shared.filter0],
                            procs[p].path)
    IN  BuildRequest(shared.client0, "GET", procs[p].path, NilData, NilForm,
                     ad.heap[ad.opt]).req

\* C11: in every interleaving of concurrent invocations on one Client, also
\* of invocations that share one Filter, the Client and the callers' Filter
\* keep their values and every request handed to the transport is the request
\* its invocation builds when it runs alone.
C11_ConcurrentReuse ==
    /\ client = shared.client0
    /\ shared.filter = shared.filter0
    /\ \A p \in Procs :
          (procs[p].pc \in {"inDo", "done"} /\ procs[p].req # NoReq) =>
              procs[p].req = AloneRequest(p)

\* two invocations that share a Filter without OptFields are both with the
\* transport, each with the defaults of its own path
C11_Witness ==
    /\ procs[1].pc = "inDo"
    /\ procs[2].pc = "inDo"
    /\ ~procs[1].nil
    /\ ~procs[2].nil
    /\ Len(shared.filter0.OptFields) = 0
    /\ procs[1].path = <<"tasks">>
    /\ procs[2].path = <<"users">>
    /\ Param(procs[1].req.URL.query, "opt_fields") = "name,assignee,assignee_status,completed,parent"
    /\ Param(procs[2].req.URL.query, "opt_fields") = "name,email,photo"

-----------------------------------------------------------------------------
(* C12 *)

\* the methods that fetch
FetchOps ==
    {"ListWorkspaces", "ListUsers", "ListProjects", "ListTasks", "ListTags",
     "ListProjectTasks", "ListTaskStories", "GetTask", "GetAuthenticatedUser",
     "GetUserByID"}

\* the path of each method that takes no identifier
FixedPath ==
    ("ListWorkspaces" :> <<"workspaces">>) @@ ("ListUsers" :> <<"users">>) @@
    ("ListProjects" :> <<"projects">>) @@ ("ListTasks" :> <<"tasks">>) @@
    ("ListTags" :> <<"tags">>) @@ ("GetAuthenticatedUser" :> <<"users", "me">>) @@
    ("CreateTask" :> <<"tasks">>)

\* what stands before and after the identifier in the path of the others
IdPath ==
    ("GetTask" :> [pre |-> <<"tasks">>, post |-> <<>>]) @@
    ("UpdateTask" :> [pre |-> <<"tasks">>, post |-> <<>>]) @@
    ("GetUserByID" :> [pre |-> <<"users">>, post |-> <<>>]) @@
    ("ListProjectTasks" :> [pre |-> <<"projects">>, post |-> <<"tasks">>]) @@
    ("ListTaskStories" :> [pre |-> <<"tasks">>, post |-> <<"stories">>])

\* the JSON text of the data arguments of the model
ExpectedJSON ==
    (TaskUpdate(<<"updated notes">>, <<>>) :> "{\"data\":{\"notes\":\"updated notes\"}}") @@
    (TaskUpdate(<<>>, <<"true">>) :> "{\"data\":{\"hearted\":true}}") @@
    (TaskUpdate(<<>>, <<>>) :> "{\"data\":{}}") @@
    (TaskUpdate(<<"updated notes">>, <<"false">>) :>
        "{\"data\":{\"notes\":\"updated notes\",\"hearted\":false}}")

\* C12: every resource method makes its one fixed call of the executor: the
\* fetching methods a GET of their path with no body and no Content-Type,
\* UpdateTask a PUT of tasks/<id> with the update as the JSON body
\* {"data":{...}} and Content-Type application/json, CreateTask a POST of tasks
\* with the fields as a form-encoded body.
C12_MethodMapping ==
    /\ (pc # "idle" /\ frame.op \in DOMAIN FixedPath) => frame.path = FixedPath[frame.op]
    /\ (pc # "idle" /\ frame.op \in DOMAIN IdPath) =>
          \E id \in Ids : frame.path = IdPath[frame.op].pre \o id \o IdPath[frame.op].post
    /\ (Handed /\ frame.op \in FetchOps) =>
          /\ req.Method = "GET"
          /\ req.body = [kind |-> "none", bytes |-> ""]
          /\ req.ContentType = ""
    /\ (Handed /\ frame.op = "UpdateTask") =>
          /\ req.Method = "PUT"
          /\ req.body.kind = "json"
          /\ req.body.bytes = ExpectedJSON[frame.data]
          /\ req.ContentType = "application/json"
    /\ (Handed /\ frame.op = "CreateTask") =>
          /\ req.Method = "POST"
          /\ req.body.kind = "form"
          /\ req.body.bytes = PairsString(Encode(frame.form.vals))
    /\ (Handed /\ frame.op \in FetchOps \cup {"UpdateTask", "CreateTask"}) =>
          req.URL.path = client.BaseURL.dir \o frame.path

\* UpdateTask of task 1 against the test server, as TestUpdateTask makes it
C12_Witness ==
    /\ pc = "inDo"
    /\ frame.op = "UpdateTask"
    /\ client.BaseURL = testBaseURL
    /\ req.Method = "PUT"
    /\ req.URL.path = <<"tasks", "1">>
    /\ req.ContentType = "application/json"
    /\ req.body.bytes = "{\"data\":{\"notes\":\"updated notes\"}}"

-----------------------------------------------------------------------------
(* C13 *)

\* C13: the body of the request follows the arguments: data that is not nil
\* gives the JSON object with data under the one key "data" and Content-Type
\* application/json; nil data and a form give the form-encoded pairs and
\* Content-Type application/x-www-form-urlencoded; neither gives no body and
\* no Content-Type.
C13_BodyByCase ==
    Handed =>
        IF frame.data.type # "nil"
        THEN /\ req.body = [kind |-> "json", bytes |-> ExpectedJSON[frame.data]]
             /\ req.ContentType = "application/json"
        ELSE IF ~frame.form.nil
        THEN /\ req.body.kind = "form"
             /\ req.body.bytes \in {"", "name=Task1", "name=Task1&workspace=9",
                                    "name=Task1&notes=n"}
             /\ Len(req.body.bytes) = 0 <=> frame.form.vals = {}
             /\ <<"workspace", "9">> \in frame.form.vals <=>
                    req.body.bytes = "name=Task1&workspace=9"
             /\ <<"notes", "n">> \in frame.form.vals <=>
                    req.body.bytes = "name=Task1&notes=n"
             /\ req.ContentType = "application/x-www-form-urlencoded"
        ELSE /\ req.body = [kind |-> "none", bytes |-> ""]
             /\ req.ContentType = ""

\* a form alone: CreateTask with two fields
C13_Witness ==
    /\ pc = "inDo"
    /\ frame.op = "CreateTask"
    /\ frame.data.type = "nil"
    /\ req.body = [kind |-> "form", bytes |-> "name=Task1&workspace=9"]
    /\ req.ContentType = "application/x-www-form-urlencoded"

-----------------------------------------------------------------------------
(* C14 *)

\* C14: an Error renders as "<message> - <phrase>", and an Errors as the
\* renderings of its elements, in list order, joined by ", "; a list of one
\* element renders as that element.
C14_Rendering ==
    rendered.done =>
        LET n == Len(err.list)
            last == err.list[n]
        IN  /\ rendered.first = err.list[1].Message \o " - " \o err.list[1].Phrase
            /\ err.list[1] = [Phrase |-> "P", Message |-> "M"] => rendered.first = "M - P"
            /\ n = 1 => rendered.text = rendered.first
            /\ n = 2 => rendered.text = "M - P, N - Q"
            /\ n > 1 =>
                  rendered.text =
                      ErrorsError(SubSeq(err.list, 1, n - 1)) \o ", "
                          \o last.Message \o " - " \o last.Phrase

\* a list of two errors was rendered
C14_Witness ==
    /\ rendered.done
    /\ Len(err.list) = 2
    /\ rendered.text = "M - P, N - Q"
    /\ rendered.first = "M - P"

-----------------------------------------------------------------------------
(* C15 *)

\* C15: an error of type Errors that a call returns has at least one element:
\* an envelope whose "errors" list is absent or empty never makes the call
\* return an Errors.
C15_ErrorsNonEmpty ==
    pc = "done" =>
        /\ err.kind = "Errors" => Len(err.list) >= 1
        /\ (Answered /\ decoded = 1 /\ ~ErrorsNonEmpty(result.resp.Body)) =>
              err.kind # "Errors"

\* a well-formed envelope without errors was decoded and the error is nil
C15_Witness ==
    /\ Answered
    /\ decoded = 1
    /\ result.resp.Body.syntax = "ok"
    /\ Len(result.resp.Body.errors) = 0
    /\ PayloadValid(result.resp.Body)
    /\ err = NoErr

-----------------------------------------------------------------------------
(* C16 *)

\* C16: every request handed to the transport has an absolute URL, the
\* resource path and the query resolved against the base address of the
\* Client, and the User-Agent go-asana/0.1; NewClient gives the base address
\* https://app.asana.com/api/1.0/ and that user agent, and after construction
\* only the base address of the Client changes.
C16_AbsoluteURL ==
    /\ NewClient.BaseURL = [scheme |-> "https", host |-> "app.asana.com", dir |-> <<"api", "1.0">>]
    /\ client.UserAgent = "go-asana/0.1"
    /\ client.BaseURL \in {NewClient.BaseURL, testBaseURL}
    /\ Handed =>
          /\ req.URL.scheme = client.BaseURL.scheme
          /\ req.URL.scheme \in {"http", "https"}
          /\ req.URL.host = client.BaseURL.host
          /\ req.URL.host # ""
          /\ req.URL.path = client.BaseURL.dir \o frame.path
          /\ \A k \in {"archived", "assignee", "project", "workspace", "opt_expand"} :
                HasParam(req.URL.query, k) <=>
                    (~frame.opt.nil /\ frame.opt.val.Archived)
          /\ req.UserAgent = "go-asana/0.1"

\* the base address NewClient sets is in use for a path with an identifier
\* and a filter
C16_Witness ==
    /\ pc = "inDo"
    /\ client.BaseURL = defaultBaseURL
    /\ req.URL.scheme = "https"
    /\ req.URL.host = "app.asana.com"
    /\ req.URL.path = <<"api", "1.0", "tasks", "1", "stories">>
    /\ HasParam(req.URL.query, "workspace")
    /\ req.UserAgent = "go-asana/0.1"

-----------------------------------------------------------------------------
(* C17 *)

\* a member of the payload does not fit the target
Mistyped(body) ==
    body.syntax = "ok" /\ body.data.present
        /\ "number" \in {body.data.gid.t, body.data.notes.t}

\* C17: the error an invocation returns is that of the first step that
\* failed, in the order: path parsing, JSON marshalling, request
\* construction (all before the transport is called), the transport, status
\* 401, a non-empty API error list, the decoder; it is nil when none failed.
C17_Precedence ==
    pc = "done" =>
        IF ~ParseOK(frame.path) THEN err = UrlParseError /\ ~result.returned
        ELSE IF frame.data.type = "chan" THEN err = MarshalError /\ ~result.returned
        ELSE IF frame.method \notin {"", "GET", "PUT", "POST"}
        THEN err = MethodError /\ ~result.returned
        ELSE IF result.err # NoErr THEN err = result.err /\ decoded = 0
        ELSE IF result.resp.StatusCode = 401 THEN err = ErrUnauthorized /\ decoded = 0
        ELSE IF ErrorsNonEmpty(result.resp.Body) THEN err = ErrorsErr(result.resp.Body.errors)
        ELSE IF result.resp.Body.syntax # "ok" THEN err = SyntaxError
        ELSE IF Mistyped(result.resp.Body) THEN err = UnmarshalTypeError
        ELSE err = NoErr

\* every build step would fail, and the first one's error is returned
C17_Witness ==
    /\ pc = "done"
    /\ ~ParseOK(frame.path)
    /\ frame.data.type = "chan"
    /\ frame.method = "BAD METHOD"
    /\ err = UrlParseError
    /\ doCount = 0

-----------------------------------------------------------------------------
(* C18 *)

\* C18: when the transport returned a response its body is closed exactly
\* once by the time the invocation returns, on every path (401, API errors,
\* decode error, success); when the transport returned an error no body is
\* closed or read; nothing is closed before the transport answers.
C18_BodyClosedOnce ==
    /\ pc \in {"idle", "inDo"} => closed = 0
    /\ Answered => closed = 1
    /\ (pc = "done" /\ ~Answered) => (closed = 0 /\ decoded = 0)

\* a 401: the body was closed and not read
C18_Witness ==
    /\ Answered
    /\ result.resp.StatusCode = 401
    /\ closed = 1
    /\ decoded = 0

-----------------------------------------------------------------------------
(* C19 *)

\* C19: of the status only 401 is looked at: for every other status the body
\* is decoded and the outcome is that of the body, so a status such as 404 or
\* 500 with a well-formed envelope without errors returns a nil error and
\* the payload in the target.
C19_OnlyUnauthorizedInspected ==
    (Answered /\ result.resp.StatusCode # 401) =>
        LET body == result.resp.Body
        IN  /\ decoded = 1
            /\ err.kind \in {"nil", "Errors", "json.SyntaxError", "json.UnmarshalTypeError"}
            /\ (body.syntax = "ok" /\ Len(body.errors) = 0 /\ ~Mistyped(body)) =>
                  /\ err = NoErr
                  /\ PayloadStored(body)
                  /\ ~body.data.present => v = frame.v0

\* a 500 with a valid payload and no errors: nil error, payload in the target
C19_Witness ==
    /\ Answered
    /\ result.resp.StatusCode = 500
    /\ PayloadValid(result.resp.Body)
    /\ Len(result.resp.Body.errors) = 0
    /\ err = NoErr
    /\ v = [gid |-> "1", notes |-> "updated notes"]

=============================================================================
